---- MODULE Spec2Model ----
(***************************************************************************)
(* A model of rust-kernel: the VGA text-mode Printer (vga_interface.rs),   *)
(* the serial channel (serial_interface.rs), the test harness (lib.rs) and *)
(* the entry point and panic handlers of the kernel (main.rs).             *)
(*                                                                         *)
(* Bytes are naturals in 0..255, a string is the sequence of its bytes, a  *)
(* screen cell is a record [ascii_code, color_code], and the screen buffer *)
(* is a function row -> col -> cell with rows 0..24 and columns 0..79.     *)
(***************************************************************************)
EXTENDS Integers, Sequences, FiniteSets, TLC

\* ------------------------------------------------------------- constants

VGA_BUFFER_HEIGTH == 25

VGA_BUFFER_WIDTH == 80

UNPRINTABLE_CHAR == 254

\* b'\n'
NEWLINE == 10

\* b' '
SPACE == 32

\* Color::White and Color::Black, the colors of the global PRINTER.
White == 15

Black == 0

\* QemuExitCode::Success and QemuExitCode::Failed
Success == 16

Failed == 17

\* ---------------------------------------------------------------- bounds

\* The longest test registry.
MaxTests == 3

\* How many write_byte / write_string calls one run of the Printer makes.
MaxCalls == 2

\* ------------------------------------------------------------- variables

VARIABLES
    \* The global PRINTER (vga_interface.rs): a record of the fields of Printer,
    \*   col_pos, current_color_code, buffer (the ScreenBuffer it points to),
    \* and of the history that goes with them,
    \*   scrolls: how many times newline() has run,
    \*   wr:      the cells write_byte wrote in the last call, in order,
    \*   maxRow, maxCol: the largest row and column index used on the buffer.
    printer,
    lastOp,               \* history: the last call on the Printer and its argument
    calls,                \* history: how many calls were made on the Printer
    \* ColorCode::new applied to a pair of colors
    fg, bg, attr,
    \* Test harness (lib.rs) and serial channel (serial_interface.rs)
    build,                \* which binary of the crate runs
    tests,                \* the registry: what each test callable does when run
    pc,                   \* the statement the harness is at
    idx,                  \* the test the loop of test_runner is at (1-based)
    phase,                \* where the _print in flight is: idle, deref, lock, write
    serialLock,           \* whether the SERIAL mutex is held
    serialInits,          \* how many times the SERIAL initializer has run
    printerLock,          \* whether the PRINTER mutex is held
    printerInits,         \* how many times the PRINTER initializer has run
    guards,               \* history: the MutexGuards alive, in order of creation
    serial,               \* what was written to the serial port, in order
    exitPort,             \* the codes written to the debug-exit port, in order
    invoked,              \* history: the tests whose callable was invoked, in order
    panics                \* history: the panics raised, in order

vgaVars == <<printer, lastOp, calls>>

colorVars == <<fg, bg, attr>>

harnessVars == <<build, tests, pc, idx, phase, serialLock, serialInits,
                 printerLock, printerInits, guards, serial, exitPort, invoked,
                 panics>>

vars == <<vgaVars, colorVars, harnessVars>>

\* ------------------------------------------------------------ Color Model

Colors == 0..15

\* The bitwise or of two naturals.
RECURSIVE BitOr(_, _)
BitOr(a, b) ==
    IF a = 0 THEN b
    ELSE IF b = 0 THEN a
    ELSE (IF (a % 2) + (b % 2) > 0 THEN 1 ELSE 0) + 2 * BitOr(a \div 2, b \div 2)

\* x << n on a u8: the bits shifted past bit 7 are lost.
RECURSIVE ShlU8(_, _)
ShlU8(x, n) == IF n = 0 THEN x % 256 ELSE ShlU8((x * 2) % 256, n - 1)

\* x & y on naturals.
RECURSIVE BitAnd(_, _)
BitAnd(a, b) ==
    IF a = 0 \/ b = 0 THEN 0
    ELSE (a % 2) * (b % 2) + 2 * BitAnd(a \div 2, b \div 2)

\* x >> n on naturals.
RECURSIVE Shr(_, _)
Shr(x, n) == IF n = 0 THEN x ELSE Shr(x \div 2, n - 1)

\* Mutant of ColorCode_new: the two colors change places.
ColorCode_new_swapped(f, b) == BitOr(ShlU8(f, 4), b)

\* ColorCode::new: (bg as u8) << 4 | (fg as u8)
ColorCode_new(f, b) == BitOr(ShlU8(b, 4), f)

\* ------------------------------------------------------- Printer: helpers

Rows == 0..(VGA_BUFFER_HEIGTH - 1)

Cols == 0..(VGA_BUFFER_WIDTH - 1)

PrintableChar(ascii, color) == [ascii_code |-> ascii, color_code |-> color]

Max(a, b) == IF a >= b THEN a ELSE b

\* buffer.chars[row][col].write(c). Indexing is bounds-checked: an index out of
\* the grid writes no cell (the access is recorded in maxRow / maxCol).
CellWrite(p, row, col, c) ==
    [p EXCEPT !.buffer = IF row \in Rows /\ col \in Cols
                         THEN [@ EXCEPT ![row][col] = c]
                         ELSE @,
              !.maxRow = Max(@, row),
              !.maxCol = Max(@, col)]

\* Mutant of clear_row: the cells are blanked in the color they had.
clear_row_keepColor(p, row) ==
    [p EXCEPT !.buffer[row] = [col \in Cols |->
                                 PrintableChar(SPACE, @[col].color_code)],
              !.maxRow = Max(@, row),
              !.maxCol = Max(@, VGA_BUFFER_WIDTH - 1)]

\* clear_row: every column of the row becomes a space in the current color.
clear_row(p, row) ==
    [p EXCEPT !.buffer[row] = [col \in Cols |->
                                 PrintableChar(SPACE, p.current_color_code)],
              !.maxRow = Max(@, row),
              !.maxCol = Max(@, VGA_BUFFER_WIDTH - 1)]

\* The row loop of newline, from `row` on: row `row` is copied, column by
\* column, onto row `row - 1`.
RECURSIVE ShiftRows(_, _)
ShiftRows(buf, row) ==
    IF row >= VGA_BUFFER_HEIGTH THEN buf
    ELSE ShiftRows([buf EXCEPT ![row - 1] = [col \in Cols |-> buf[row][col]]],
                   row + 1)

\* Mutant of newline: the last row is cleared before the rows are shifted.
newline_clearFirst(p) ==
    LET cleared == clear_row(p, VGA_BUFFER_HEIGTH - 1)
        shifted == [cleared EXCEPT !.buffer = ShiftRows(@, 1),
                                   !.maxRow = Max(@, VGA_BUFFER_HEIGTH - 1),
                                   !.maxCol = Max(@, VGA_BUFFER_WIDTH - 1)]
    IN  [shifted EXCEPT !.col_pos = 0, !.scrolls = @ + 1]

\* newline: shift rows 1..24 up by one, clear the last row, col_pos = 0.
newline(p) ==
    LET shifted == [p EXCEPT !.buffer = ShiftRows(@, 1),
                             !.maxRow = Max(@, VGA_BUFFER_HEIGTH - 1),
                             !.maxCol = Max(@, VGA_BUFFER_WIDTH - 1)]
        cleared == clear_row(shifted, VGA_BUFFER_HEIGTH - 1)
    IN  [cleared EXCEPT !.col_pos = 0, !.scrolls = @ + 1]

\* Mutant of write_byte: the cell is written on the row above the last.
write_byte_rowAbove(p, byte) ==
    IF byte = NEWLINE THEN newline(p)
    ELSE LET q == IF p.col_pos >= VGA_BUFFER_WIDTH THEN newline(p) ELSE p
             row == VGA_BUFFER_HEIGTH - 2
             col == q.col_pos
             w == CellWrite(q, row, col,
                            PrintableChar(byte, q.current_color_code))
         IN  [w EXCEPT !.col_pos = @ + 1,
                       !.wr = Append(@, [row |-> row, col |-> col,
                                         ascii_code |-> byte])]

\* Mutant of write_byte: no line-full test is made.
write_byte_noWrap(p, byte) ==
    IF byte = NEWLINE THEN newline(p)
    ELSE LET row == VGA_BUFFER_HEIGTH - 1
             col == p.col_pos
             w == CellWrite(p, row, col,
                            PrintableChar(byte, p.current_color_code))
         IN  [w EXCEPT !.col_pos = @ + 1,
                       !.wr = Append(@, [row |-> row, col |-> col,
                                         ascii_code |-> byte])]

\* Mutant of write_byte: the line-full test is made after the cell write.
write_byte_checkAfter(p, byte) ==
    IF byte = NEWLINE THEN newline(p)
    ELSE LET row == VGA_BUFFER_HEIGTH - 1
             col == p.col_pos
             w == CellWrite(p, row, col,
                            PrintableChar(byte, p.current_color_code))
             x == [w EXCEPT !.col_pos = @ + 1,
                            !.wr = Append(@, [row |-> row, col |-> col,
                                              ascii_code |-> byte])]
         IN  IF x.col_pos >= VGA_BUFFER_WIDTH THEN newline(x) ELSE x

\* Mutant of write_byte: col_pos moves on before the cell is written.
write_byte_incFirst(p, byte) ==
    IF byte = NEWLINE THEN newline(p)
    ELSE LET q == IF p.col_pos >= VGA_BUFFER_WIDTH THEN newline(p) ELSE p
             row == VGA_BUFFER_HEIGTH - 1
             col == q.col_pos + 1
             w == CellWrite(q, row, col,
                            PrintableChar(byte, q.current_color_code))
         IN  [w EXCEPT !.col_pos = @ + 1,
                       !.wr = Append(@, [row |-> row, col |-> col,
                                         ascii_code |-> byte])]

\* Mutant of write_byte: the line-full test is col_pos > width.
write_byte_gt(p, byte) ==
    IF byte = NEWLINE THEN newline(p)
    ELSE LET q == IF p.col_pos > VGA_BUFFER_WIDTH THEN newline(p) ELSE p
             row == VGA_BUFFER_HEIGTH - 1
             col == q.col_pos
             w == CellWrite(q, row, col,
                            PrintableChar(byte, q.current_color_code))
         IN  [w EXCEPT !.col_pos = @ + 1,
                       !.wr = Append(@, [row |-> row, col |-> col,
                                         ascii_code |-> byte])]

\* Mutant of write_byte: the line-full test is made for every byte, a newline
\* included, before the byte is looked at.
write_byte_wrapFirst(p, byte) ==
    LET q == IF p.col_pos >= VGA_BUFFER_WIDTH THEN newline(p) ELSE p
    IN  IF byte = NEWLINE THEN newline(q)
        ELSE LET row == VGA_BUFFER_HEIGTH - 1
                 col == q.col_pos
                 w == CellWrite(q, row, col,
                                PrintableChar(byte, q.current_color_code))
             IN  [w EXCEPT !.col_pos = @ + 1,
                           !.wr = Append(@, [row |-> row, col |-> col,
                                             ascii_code |-> byte])]

\* write_byte: a newline byte scrolls; any other byte scrolls first when the
\* line is full, then is written at (24, col_pos) and col_pos moves on.
write_byte(p, byte) ==
    IF byte = NEWLINE THEN newline(p)
    ELSE LET q == IF p.col_pos >= VGA_BUFFER_WIDTH THEN newline(p) ELSE p
             row == VGA_BUFFER_HEIGTH - 1
             col == q.col_pos
             w == CellWrite(q, row, col,
                            PrintableChar(byte, q.current_color_code))
         IN  [w EXCEPT !.col_pos = @ + 1,
                       !.wr = Append(@, [row |-> row, col |-> col,
                                         ascii_code |-> byte])]

\* Mutant of Substitute: the printable range ends at 0x7f, so DEL passes.
Substitute_inclDel(byte) ==
    IF (byte >= 32 /\ byte <= 127) \/ byte = NEWLINE THEN byte
    ELSE UNPRINTABLE_CHAR

\* The byte write_string hands to write_byte for one byte of the string.
Substitute(byte) ==
    IF (byte >= 32 /\ byte <= 126) \/ byte = NEWLINE THEN byte
    ELSE UNPRINTABLE_CHAR

\* The loop of write_string over bytes lo..hi of s, in order: the bytes lo..mid
\* first, then the bytes mid+1..hi from the Printer those leave. (left.col_pos
\* >= 0 always holds: the test only makes the evaluation of the first half
\* finish before the second half starts.)
RECURSIVE WriteStringFrom(_, _, _, _)
WriteStringFrom(p, s, lo, hi) ==
    IF lo > hi THEN p
    ELSE IF lo = hi THEN write_byte(p, Substitute(s[lo]))
    ELSE LET mid == (lo + hi) \div 2
             left == WriteStringFrom(p, s, lo, mid)
         IN  IF left.col_pos >= 0 THEN WriteStringFrom(left, s, mid + 1, hi)
             ELSE left

write_string(p, s) == WriteStringFrom(p, s, 1, Len(s))

\* --------------------------------------------------------- Printer: inputs

\* n printable bytes, all different for n <= 95: 0x20, 0x21, ...
Ramp(n) == [i \in 1..n |-> 32 + ((i - 1) % 95)]

\* Bytes that write_string substitutes: control bytes, DEL, the bytes of a
\* multi-byte UTF-8 character, and the glyph code itself.
Unprintables == <<0, 9, 13, 31, 127, 195, 169, 254, 255>>

\* n bytes, every third one unprintable, none a newline.
Garble(n) ==
    [i \in 1..n |-> IF i % 3 = 1
                    THEN Unprintables[1 + ((i \div 3) % Len(Unprintables))]
                    ELSE 65 + (i % 26)]

\* "Hello\nWorld!"
HelloWorld == <<72, 101, 108, 108, 111, 10, 87, 111, 114, 108, 100, 33>>

\* The strings any call may write: lines that end before, at and after the
\* width, with and without bytes to substitute, and strings with newlines.
Strings ==
    {Ramp(n) : n \in {VGA_BUFFER_WIDTH, VGA_BUFFER_WIDTH + 1,
                      2 * VGA_BUFFER_WIDTH + 1}}
      \cup {Garble(n) : n \in {5, 2 * VGA_BUFFER_WIDTH}}
      \cup {HelloWorld, <<65, NEWLINE, NEWLINE, 66>>}

\* The first call may also write a line of any length up to one past the width,
\* so that the later calls start from every col_pos.
Fills == {Ramp(n) : n \in 0..(VGA_BUFFER_WIDTH + 1)}

\* The bytes write_byte is called with: a newline, a letter, DEL, the glyph code.
Bytes == {NEWLINE, 65, 127, UNPRINTABLE_CHAR}

\* The screen memory as the Printer finds it: blank, or whatever was left there.
BlankBuffer == [r \in Rows |-> [c \in Cols |-> PrintableChar(SPACE, 7)]]

LeftoverBuffer ==
    [r \in Rows |-> [c \in Cols |-> PrintableChar(33 + ((7 * r + c) % 90), 30)]]

InitBuffers == {BlankBuffer, LeftoverBuffer}

\* --------------------------------------------------------- Printer: actions

\* PRINTER, as lazy_static constructs it, over the screen memory as it is.
NewPrinter(buf) ==
    [col_pos |-> 0,
     current_color_code |-> ColorCode_new(White, Black),
     buffer |-> buf,
     scrolls |-> 0, wr |-> <<>>, maxRow |-> 0, maxCol |-> 0]

VgaInit ==
    /\ printer \in {NewPrinter(buf) : buf \in InitBuffers}
    /\ lastOp = [op |-> "none", arg |-> <<>>]
    /\ calls = 0

WriteByte ==
    /\ calls < MaxCalls
    /\ \E b \in Bytes :
         /\ printer' = write_byte([printer EXCEPT !.wr = <<>>], b)
         /\ lastOp' = [op |-> "write_byte", arg |-> <<b>>]
    /\ calls' = calls + 1
    /\ UNCHANGED <<colorVars, harnessVars>>

WriteString ==
    /\ calls < MaxCalls
    /\ \E s \in (IF calls = 0 THEN Strings \cup Fills ELSE Strings) :
         /\ printer' = write_string([printer EXCEPT !.wr = <<>>], s)
         /\ lastOp' = [op |-> "write_string", arg |-> s]
    /\ calls' = calls + 1
    /\ UNCHANGED <<colorVars, harnessVars>>

ColorIdle == fg = 0 /\ bg = 0 /\ attr = 0

VgaNext == WriteByte \/ WriteString

\* ------------------------------------------------------ Color Model: spec

ColorInit == fg \in Colors /\ bg \in Colors /\ attr = -1

\* PRINTER is constructed on its first use: it is not, where nothing prints to
\* the screen.
VgaIdle ==
    /\ printer = "unconstructed"
    /\ lastOp = [op |-> "none", arg |-> <<>>]
    /\ calls = 0

MakeColorCode ==
    /\ attr = -1
    /\ attr' = ColorCode_new(fg, bg)
    /\ UNCHANGED <<fg, bg, vgaVars, harnessVars>>

ColorNext == MakeColorCode

\* ------------------------------------------------------------ Test harness

\* What a test callable does when invoked: it returns, it panics, or it never
\* returns.
Behaviours == {"return", "panic", "hang"}

Registries == UNION {[1..n -> Behaviours] : n \in 0..MaxTests}

\* The binaries the crate builds: the test binary of the library (lib.rs
\* _start), the test binary of main.rs (_start with test_main) and the kernel
\* itself (main.rs _start without test_main).
Builds == {"lib_test", "main_test", "main"}

TestBuild == build \in {"lib_test", "main_test"}

\* The statements that print to the serial port: those of the harness and the
\* serial_println! of main.rs _start.
PrintPcs == {"header", "name", "ok", "banner", "error", "start"}

\* The statements that print to the screen: the println! of main.rs _start and
\* the two prints of the panic handler of the kernel build.
VgaPcs == {"hello", "panic_banner", "panic_info"}

\* What the print at statement `at` writes; the error line describes the panic
\* the handler was entered for, the last one raised.
Message(at, i) ==
    CASE at = "header" -> [kind |-> "header", test |-> Len(tests)]
      [] at = "name"   -> [kind |-> "running", test |-> i]
      [] at = "ok"     -> [kind |-> "ok", test |-> i]
      [] at = "banner" -> [kind |-> "banner", test |-> 0]
      [] at = "error"  -> [kind |-> "error", test |-> panics[Len(panics)].test]
      [] at = "start"  -> [kind |-> "start", test |-> 0]

\* "Hello World!\n", what println!("Hello World!") formats.
HelloWorldLine ==
    <<72, 101, 108, 108, 111, 32, 87, 111, 114, 108, 100, 33, NEWLINE>>

\* n times '-'
Dashes(n) == [i \in 1..n |-> 45]

\* The text of a PanicInfo as Display writes it; its wording is the compiler's,
\* the model keeps that it is a non-empty run of printable bytes.
PanicInfoText == <<112, 97, 110, 105, 99, 107, 101, 100>>

\* The bytes the print at statement `at` formats for the screen.
VgaText(at) ==
    CASE at = "hello"        -> HelloWorldLine
      [] at = "panic_banner" -> <<NEWLINE>> \o Dashes(8)
                                  \o <<32, 80, 65, 78, 73, 67, 32>>
                                  \o Dashes(8) \o <<NEWLINE>>
      [] at = "panic_info"   -> PanicInfoText \o <<NEWLINE>> \o Dashes(23)
                                  \o <<NEWLINE>>

\* Mutant of AfterPrint: the loop of test_runner stops one test short.
AfterPrint_skipLast(at, i) ==
    CASE at = "header" -> IF Len(tests) = 0 THEN "exit_success" ELSE "name"
      [] at = "name"   -> "call"
      [] at = "ok"     -> IF i + 1 < Len(tests) THEN "name" ELSE "exit_success"
      [] at = "banner" -> "error"
      [] at = "error"  -> "exit_failed"
      [] at = "start"  -> "hello"
      [] at = "hello"  -> "loop"
      [] at = "panic_banner" -> "panic_info"
      [] at = "panic_info"   -> "loop"

\* Mutant of AfterPrint: Testable::run prints "ok!" without calling self().
AfterPrint_noCall(at, i) ==
    CASE at = "header" -> IF Len(tests) = 0 THEN "exit_success" ELSE "name"
      [] at = "name"   -> "ok"
      [] at = "ok"     -> IF i < Len(tests) THEN "name" ELSE "exit_success"
      [] at = "banner" -> "error"
      [] at = "error"  -> "exit_failed"
      [] at = "start"  -> "hello"
      [] at = "hello"  -> "loop"
      [] at = "panic_banner" -> "panic_info"
      [] at = "panic_info"   -> "loop"

\* The statement after a print that returned.
AfterPrint(at, i) ==
    CASE at = "header" -> IF Len(tests) = 0 THEN "exit_success" ELSE "name"
      [] at = "name"   -> "call"
      [] at = "ok"     -> IF i < Len(tests) THEN "name" ELSE "exit_success"
      [] at = "banner" -> "error"
      [] at = "error"  -> "exit_failed"
      [] at = "start"  -> "hello"
      [] at = "hello"  -> "loop"
      [] at = "panic_banner" -> "panic_info"
      [] at = "panic_info"   -> "loop"

\* The phase a statement is entered in: a print starts by dereferencing its
\* device.
PhaseAt(at) == IF at \in PrintPcs \cup VgaPcs THEN "deref" ELSE "idle"

\* _start is entered: in a test build it calls test_main, which runs test_runner
\* on the registry the build collected; the kernel build has no registry and
\* starts at its serial_println!.
HarnessInit ==
    /\ build \in Builds
    /\ tests \in (IF TestBuild THEN Registries ELSE {<<>>})
    /\ pc = (IF TestBuild THEN "header" ELSE "start")
    /\ idx = 1
    /\ phase = "deref"
    /\ serialLock = FALSE
    /\ serialInits = 0
    /\ printerLock = FALSE
    /\ printerInits = 0
    /\ guards = <<>>
    /\ serial = <<>>
    /\ exitPort = <<>>
    /\ invoked = <<>>
    /\ panics = <<>>

HarnessIdle ==
    /\ build = "none"
    /\ tests = <<>>
    /\ pc = "halted"
    /\ idx = 1
    /\ phase = "idle"
    /\ serialLock = FALSE
    /\ serialInits = 0
    /\ printerLock = FALSE
    /\ printerInits = 0
    /\ guards = <<>>
    /\ serial = <<>>
    /\ exitPort = <<>>
    /\ invoked = <<>>
    /\ panics = <<>>

\* The panic handler: in a test build control goes to test_panic, whose first
\* statement prints the banner to the serial port; in the kernel build the
\* handler of main.rs prints its banner to the screen. Nothing of the panicking
\* context is unwound, so a lock it held stays held.
EnterPanic(cause, test) ==
    /\ panics' = Append(panics, [cause |-> cause, test |-> test, at |-> pc])
    /\ pc' = (IF TestBuild THEN "banner" ELSE "panic_banner")
    /\ phase' = "deref"

\* Mutant of SerialDeref: every dereference runs the initializer.
SerialDeref_always ==
    /\ pc \in PrintPcs
    /\ phase = "deref"
    /\ serialInits' = serialInits + 1
    /\ phase' = "lock"
    /\ UNCHANGED <<build, tests, pc, idx, serialLock, printerLock, printerInits,
                   guards, serial, exitPort, invoked, panics>>
    /\ UNCHANGED <<vgaVars, colorVars>>

\* _print: SERIAL is dereferenced; the first dereference runs the initializer
\* (SerialPort::new and init()).
SerialDeref ==
    /\ pc \in PrintPcs
    /\ phase = "deref"
    /\ serialInits' = IF serialInits = 0 THEN 1 ELSE serialInits
    /\ phase' = "lock"
    /\ UNCHANGED <<build, tests, pc, idx, serialLock, printerLock, printerInits,
                   guards, serial, exitPort, invoked, panics>>
    /\ UNCHANGED <<vgaVars, colorVars>>

\* Mutant of SerialLock: lock() returns a guard without waiting for the mutex.
SerialLock_noWait ==
    /\ pc \in PrintPcs
    /\ phase = "lock"
    /\ serialLock' = TRUE
    /\ guards' = Append(guards, [device |-> "SERIAL", at |-> pc])
    /\ phase' = "write"
    /\ UNCHANGED <<build, tests, pc, idx, serialInits, printerLock, printerInits,
                   serial, exitPort, invoked, panics>>
    /\ UNCHANGED <<vgaVars, colorVars>>

\* _print: SERIAL.lock() spins until the mutex is free and takes it. While the
\* mutex is held the spin changes nothing: the caller takes no step.
SerialLock ==
    /\ pc \in PrintPcs
    /\ phase = "lock"
    /\ serialLock = FALSE
    /\ serialLock' = TRUE
    /\ guards' = Append(guards, [device |-> "SERIAL", at |-> pc])
    /\ phase' = "write"
    /\ UNCHANGED <<build, tests, pc, idx, serialInits, printerLock, printerInits,
                   serial, exitPort, invoked, panics>>
    /\ UNCHANGED <<vgaVars, colorVars>>

\* _print: write_fmt returns Ok, expect passes, the guard is dropped at the end
\* of the statement and the caller goes on to its next statement.
SerialWriteOk ==
    /\ pc \in PrintPcs
    /\ phase = "write"
    /\ serial' = Append(serial, Message(pc, idx))
    /\ serialLock' = FALSE
    /\ guards' = SubSeq(guards, 1, Len(guards) - 1)
    /\ pc' = AfterPrint(pc, idx)
    /\ idx' = IF pc = "ok" /\ idx < Len(tests) THEN idx + 1 ELSE idx
    /\ phase' = PhaseAt(AfterPrint(pc, idx))
    /\ UNCHANGED <<build, tests, serialInits, printerLock, printerInits,
                   exitPort, invoked, panics>>
    /\ UNCHANGED <<vgaVars, colorVars>>

\* _print: write_fmt returns Err and expect panics, while the guard is alive.
SerialWriteErr ==
    /\ pc \in PrintPcs
    /\ phase = "write"
    /\ EnterPanic("fmt", 0)
    /\ UNCHANGED <<build, tests, idx, serialLock, serialInits, printerLock,
                   printerInits, guards, serial, exitPort, invoked>>
    /\ UNCHANGED <<vgaVars, colorVars>>

\* vga _print: PRINTER is dereferenced; the first dereference runs the
\* initializer, which makes the Printer over the screen memory as it is.
PrinterDeref ==
    /\ pc \in VgaPcs
    /\ phase = "deref"
    /\ IF printerInits = 0
         THEN /\ \E buf \in InitBuffers : printer' = NewPrinter(buf)
              /\ printerInits' = 1
         ELSE UNCHANGED <<printer, printerInits>>
    /\ phase' = "lock"
    /\ UNCHANGED <<build, tests, pc, idx, serialLock, serialInits, printerLock,
                   guards, serial, exitPort, invoked, panics>>
    /\ UNCHANGED <<lastOp, calls, colorVars>>

\* vga _print: PRINTER.lock() spins until the mutex is free and takes it.
PrinterLock ==
    /\ pc \in VgaPcs
    /\ phase = "lock"
    /\ printerLock = FALSE
    /\ printerLock' = TRUE
    /\ guards' = Append(guards, [device |-> "PRINTER", at |-> pc])
    /\ phase' = "write"
    /\ UNCHANGED <<build, tests, pc, idx, serialLock, serialInits, printerInits,
                   serial, exitPort, invoked, panics>>
    /\ UNCHANGED <<vgaVars, colorVars>>

\* vga _print holds the PRINTER guard and is about to call write_fmt.
PrinterWriting == pc \in VgaPcs /\ phase = "write"

\* vga _print: write_fmt hands the text to write_str, which calls write_string
\* and returns Ok(()) whatever the text, so unwrap passes; the guard is dropped
\* at the end of the statement.
PrinterWrite ==
    /\ PrinterWriting
    /\ printer' = write_string([printer EXCEPT !.wr = <<>>], VgaText(pc))
    /\ lastOp' = [op |-> "write_string", arg |-> VgaText(pc)]
    /\ calls' = calls + 1
    /\ printerLock' = FALSE
    /\ guards' = SubSeq(guards, 1, Len(guards) - 1)
    /\ pc' = AfterPrint(pc, idx)
    /\ phase' = PhaseAt(AfterPrint(pc, idx))
    /\ UNCHANGED <<build, tests, idx, serialLock, serialInits, printerInits,
                   serial, exitPort, invoked, panics>>
    /\ UNCHANGED colorVars

\* Testable::run: self() is called.
TestCall ==
    /\ pc = "call"
    /\ invoked' = Append(invoked, idx)
    /\ pc' = "in_test"
    /\ UNCHANGED <<build, tests, idx, phase, serialLock, serialInits,
                   printerLock, printerInits, guards, serial, exitPort, panics>>
    /\ UNCHANGED <<vgaVars, colorVars>>

\* The test callable returns: run goes on to print "ok!".
TestReturns ==
    /\ pc = "in_test"
    /\ tests[idx] = "return"
    /\ pc' = "ok"
    /\ phase' = "deref"
    /\ UNCHANGED <<build, tests, idx, serialLock, serialInits, printerLock,
                   printerInits, guards, serial, exitPort, invoked, panics>>
    /\ UNCHANGED <<vgaVars, colorVars>>

\* The test callable panics.
TestPanics ==
    /\ pc = "in_test"
    /\ tests[idx] = "panic"
    /\ EnterPanic("test", idx)
    /\ UNCHANGED <<build, tests, idx, serialLock, serialInits, printerLock,
                   printerInits, guards, serial, exitPort, invoked>>
    /\ UNCHANGED <<vgaVars, colorVars>>

\* exit_qemu: the code is written to the debug-exit port. Where the machine has
\* the debug-exit device the write ends the machine; where it has not, the
\* write has no effect and exit_qemu returns to its caller, which goes on at
\* return_to.
exit_qemu(exit_code, return_to) ==
    /\ exitPort' = Append(exitPort, exit_code)
    /\ pc' \in {"halted", return_to}
    /\ phase' = PhaseAt(pc')

\* test_runner, after the loop: exit_qemu(QemuExitCode::Success). When it
\* returns, test_runner and test_main return to _start: the one of lib.rs
\* loops, the one of main.rs goes on to its serial_println!.
ExitSuccess ==
    /\ pc = "exit_success"
    /\ exit_qemu(Success, IF build = "main_test" THEN "start" ELSE "loop")
    /\ UNCHANGED <<build, tests, idx, serialLock, serialInits, printerLock,
                   printerInits, guards, serial, invoked, panics>>
    /\ UNCHANGED <<vgaVars, colorVars>>

\* Mutant of ExitFailed: test_panic exits with the Success code.
ExitFailed_writesSuccess ==
    /\ pc = "exit_failed"
    /\ exit_qemu(Success, "loop")
    /\ UNCHANGED <<build, tests, idx, serialLock, serialInits, printerLock,
                   printerInits, guards, serial, invoked, panics>>
    /\ UNCHANGED <<vgaVars, colorVars>>

\* Mutant of ExitFailed: test_panic has no final loop; when exit_qemu returns,
\* control falls into the tail of test_runner.
ExitFailed_noLoop ==
    /\ pc = "exit_failed"
    /\ exit_qemu(Failed, "exit_success")
    /\ UNCHANGED <<build, tests, idx, serialLock, serialInits, printerLock,
                   printerInits, guards, serial, invoked, panics>>
    /\ UNCHANGED <<vgaVars, colorVars>>

\* test_panic, after its two prints: exit_qemu(QemuExitCode::Failed); when it
\* returns, test_panic loops.
ExitFailed ==
    /\ pc = "exit_failed"
    /\ exit_qemu(Failed, "loop")
    /\ UNCHANGED <<build, tests, idx, serialLock, serialInits, printerLock,
                   printerInits, guards, serial, invoked, panics>>
    /\ UNCHANGED <<vgaVars, colorVars>>

HarnessNext ==
    \/ SerialDeref
    \/ SerialLock
    \/ SerialWriteOk
    \/ SerialWriteErr
    \/ PrinterDeref
    \/ PrinterLock
    \/ PrinterWrite
    \/ TestCall
    \/ TestReturns
    \/ TestPanics
    \/ ExitSuccess
    \/ ExitFailed

\* -------------------------------------------------------- specifications

\* The Printer under any MaxCalls calls of write_byte and write_string.
InitVga == VgaInit /\ ColorIdle /\ HarnessIdle

SpecVga == InitVga /\ [][VgaNext]_vars

\* ColorCode::new on every pair of colors.
InitColor == ColorInit /\ VgaIdle /\ HarnessIdle

SpecColor == InitColor /\ [][ColorNext]_vars

\* One run of each binary: the test binaries on any registry of at most
\* MaxTests tests, the kernel from _start to its final loop.
InitHarness == HarnessInit /\ VgaIdle /\ ColorIdle

SpecHarness == InitHarness /\ [][HarnessNext]_vars

\* ------------------------------------------------------ claims: Printer

LastRow == VGA_BUFFER_HEIGTH - 1

Printable(b) == b >= 32 /\ b <= 126

AllPrintable(s) == \A i \in 1..Len(s) : Printable(s[i])

NotNewline(b) == b # NEWLINE

Min(a, b) == IF a <= b THEN a ELSE b

\* The step is a call of write_byte with a byte other than newline.
CharWriteStep == lastOp'.op = "write_byte" /\ lastOp'.arg[1] # NEWLINE

\* C1: col_pos is always in 0..80; a call lowers col_pos only if newline() ran in
\* it, and a call in which newline() did not run raises col_pos by the number of
\* cells it wrote; write_byte compares col_pos with the width before its cell
\* write and not after it: it scrolls exactly when col_pos was 80 on entry, and
\* the cell written is the one left of the col_pos it leaves, so col_pos is
\* at least 1 after a character write and 80 is a resting state.
C1_ColPosInRangeCheckedBeforeWrite ==
    /\ [](printer.col_pos \in 0..VGA_BUFFER_WIDTH)
    /\ [][/\ (printer'.col_pos < printer.col_pos
                => printer'.scrolls > printer.scrolls)
          /\ (printer'.scrolls = printer.scrolls
                => printer'.col_pos = printer.col_pos + Len(printer'.wr))
          /\ (CharWriteStep =>
                /\ printer'.scrolls = printer.scrolls
                     + (IF printer.col_pos = VGA_BUFFER_WIDTH THEN 1 ELSE 0)
                /\ Len(printer'.wr) = 1
                /\ printer'.wr[1].col =
                     (IF printer.col_pos = VGA_BUFFER_WIDTH THEN 0
                      ELSE printer.col_pos)
                /\ printer'.col_pos = printer'.wr[1].col + 1)]_vars

\* A full line at rest: col_pos is 80 after a call and nothing has scrolled.
C1_Witness == calls >= 1 /\ printer.col_pos = VGA_BUFFER_WIDTH /\ printer.scrolls = 0

\* The step is write_string, on a Printer with col_pos = 0, of n printable bytes.
PrintableLineStep(n) ==
    /\ lastOp'.op = "write_string"
    /\ printer.col_pos = 0
    /\ Len(lastOp'.arg) = n
    /\ AllPrintable(lastOp'.arg)

\* C2: write_string of n <= 80 printable bytes to a Printer with col_pos = 0
\* leaves cells (24, 0) .. (24, n-1) holding the bytes in order, each with the
\* current color code, col_pos = n, and does not scroll.
C2_PrintableLineVerbatim ==
    [][\A n \in 0..VGA_BUFFER_WIDTH :
         PrintableLineStep(n) =>
           /\ \A i \in 1..n :
                printer'.buffer[LastRow][i - 1]
                  = PrintableChar(lastOp'.arg[i], printer.current_color_code)
           /\ printer'.col_pos = n
           /\ printer'.scrolls = printer.scrolls]_vars

\* A full line of 80 different printable bytes was written by the first call.
C2_Witness ==
    /\ calls = 1
    /\ lastOp = [op |-> "write_string", arg |-> Ramp(VGA_BUFFER_WIDTH)]
    /\ printer.col_pos = VGA_BUFFER_WIDTH
    /\ printer.buffer[LastRow][VGA_BUFFER_WIDTH - 1].ascii_code
         = Ramp(VGA_BUFFER_WIDTH)[VGA_BUFFER_WIDTH]

\* The step writes one printable byte, by write_byte or by write_string.
OnePrintableStep ==
    /\ lastOp'.op \in {"write_byte", "write_string"}
    /\ Len(lastOp'.arg) = 1
    /\ Printable(lastOp'.arg[1])

\* C3: 80 printable bytes from col_pos = 0 and then one more printable byte
\* scroll exactly once, on the 81st byte. As one write_string of 81 bytes: one
\* scroll, row 23 holds the first 80 bytes, the 81st is at (24, 0), col_pos = 1.
\* As a second call on the full line (which by C2 has not scrolled): one scroll,
\* row 23 is what row 24 was, the byte is at (24, 0), col_pos = 1.
C3_EightyFirstByteScrollsOnce ==
    [][/\ PrintableLineStep(VGA_BUFFER_WIDTH + 1) =>
            /\ printer'.scrolls = printer.scrolls + 1
            /\ \A i \in 1..VGA_BUFFER_WIDTH :
                 printer'.buffer[LastRow - 1][i - 1]
                   = PrintableChar(lastOp'.arg[i], printer.current_color_code)
            /\ printer'.wr[VGA_BUFFER_WIDTH].col = VGA_BUFFER_WIDTH - 1
            /\ printer'.wr[VGA_BUFFER_WIDTH + 1].col = 0
            /\ printer'.buffer[LastRow][0]
                 = PrintableChar(lastOp'.arg[VGA_BUFFER_WIDTH + 1],
                                 printer.current_color_code)
            /\ printer'.col_pos = 1
       /\ (printer.col_pos = VGA_BUFFER_WIDTH /\ OnePrintableStep) =>
            /\ printer'.scrolls = printer.scrolls + 1
            /\ printer'.buffer[LastRow - 1] = printer.buffer[LastRow]
            /\ printer'.buffer[LastRow][0]
                 = PrintableChar(lastOp'.arg[1], printer.current_color_code)
            /\ printer'.col_pos = 1]_vars

\* 80 printable bytes, then the letter A: the 80 bytes are on row 23.
C3_Witness ==
    /\ calls = 2
    /\ lastOp = [op |-> "write_byte", arg |-> <<65>>]
    /\ printer.scrolls = 1
    /\ printer.col_pos = 1
    /\ \A i \in 1..VGA_BUFFER_WIDTH :
         printer.buffer[LastRow - 1][i - 1].ascii_code = Ramp(VGA_BUFFER_WIDTH)[i]
    /\ printer.buffer[LastRow][0].ascii_code = 65

\* C4: write_byte of a newline, at any col_pos, runs newline() exactly once,
\* writes no cell of its own and leaves col_pos = 0.
C4_NewlineByteScrollsOnce ==
    [][(lastOp'.op = "write_byte" /\ lastOp'.arg[1] = NEWLINE) =>
         /\ printer'.scrolls = printer.scrolls + 1
         /\ printer'.col_pos = 0
         /\ printer'.wr = <<>>
         /\ printer'.buffer[LastRow - 1] = printer.buffer[LastRow]]_vars

\* A newline byte written on a full line: one scroll, and the line is on row 23.
C4_Witness ==
    /\ calls = 2
    /\ lastOp = [op |-> "write_byte", arg |-> <<NEWLINE>>]
    /\ printer.scrolls = 1
    /\ printer.col_pos = 0
    /\ printer.buffer[LastRow - 1][VGA_BUFFER_WIDTH - 1].ascii_code
         = Ramp(VGA_BUFFER_WIDTH)[VGA_BUFFER_WIDTH]

\* C5: write_string writes one cell for every byte other than newline, none
\* dropped: the byte itself when it is printable and the glyph code 0xFE when it
\* is not; the cells of the last row hold those codes; in a string with no
\* newline the j-th byte lands on column (col_pos + j - 1) mod 80 whether it is
\* printable or not; and write_byte writes any byte other than newline as it
\* is, the glyph code 0xFE included.
C5_UnprintableSubstituted ==
    [][/\ lastOp'.op = "write_string" =>
            LET s == lastOp'.arg
                t == SelectSeq(s, NotNewline)
                w == printer'.wr
                m == Min(printer'.col_pos, Len(w))
            IN  /\ Len(w) = Len(t)
                /\ \A j \in 1..Len(t) :
                     w[j].ascii_code = (IF Printable(t[j]) THEN t[j]
                                        ELSE UNPRINTABLE_CHAR)
                /\ \A j \in (Len(w) - m + 1)..Len(w) :
                     printer'.buffer[LastRow][w[j].col]
                       = PrintableChar(w[j].ascii_code, printer.current_color_code)
                /\ Len(t) = Len(s) =>
                     \A j \in 1..Len(s) :
                       w[j].col = (printer.col_pos + j - 1) % VGA_BUFFER_WIDTH
                /\ (Len(t) = Len(s) /\ Len(s) >= 1) =>
                     printer'.col_pos =
                       ((printer.col_pos + Len(s) - 1) % VGA_BUFFER_WIDTH) + 1
       /\ CharWriteStep =>
            /\ printer'.wr[1].ascii_code = lastOp'.arg[1]
            /\ printer'.buffer[LastRow][printer'.wr[1].col]
                 = PrintableChar(lastOp'.arg[1], printer.current_color_code)]_vars

\* A string that starts with a NUL byte was written by the first call: the
\* first cell of the last row holds the glyph code and col_pos is the length.
C5_Witness ==
    /\ calls = 1
    /\ lastOp = [op |-> "write_string", arg |-> Garble(5)]
    /\ lastOp.arg[1] = 0
    /\ printer.buffer[LastRow][0].ascii_code = UNPRINTABLE_CHAR
    /\ printer.col_pos = 5

\* ---------------------------------------------------- claims: Color Model

\* C6: for every pair of colors, ColorCode::new(fg, bg) is the byte 16 * bg + fg,
\* that is (bg << 4) | fg; byte & 0x0F is fg and byte >> 4 is bg; and the byte
\* fits in 8 bits.
C6_ColorRoundTrip ==
    attr # -1 =>
      /\ attr = 16 * bg + fg
      /\ BitAnd(attr, 15) = fg
      /\ Shr(attr, 4) = bg
      /\ attr \in 0..255

\* ColorCode::new was applied to a pair of different colors with high bits set.
C6_Witness == fg = 9 /\ bg = 14 /\ attr = 233

\* --------------------------------------------------- claims: Hello World

Blank(cell) == cell.ascii_code = SPACE

FreshBuffer(buf) == \A r \in Rows : \A c \in Cols : Blank(buf[r][c])

\* Row r of the buffer holds the bytes of s and then blanks.
RowShows(buf, r, s) ==
    /\ \A i \in 1..Len(s) : buf[r][i - 1].ascii_code = s[i]
    /\ \A c \in Len(s)..(VGA_BUFFER_WIDTH - 1) : Blank(buf[r][c])

\* C7: write_string("Hello\nWorld!") as the first call on a new Printer over a
\* blank buffer leaves "Hello" and blanks on row 23, "World!" and blanks on row
\* 24, and col_pos = 6.
C7_HelloWorldScenario ==
    [][(/\ calls = 0
        /\ FreshBuffer(printer.buffer)
        /\ lastOp' = [op |-> "write_string", arg |-> HelloWorld]) =>
         /\ RowShows(printer'.buffer, LastRow - 1, <<72, 101, 108, 108, 111>>)
         /\ RowShows(printer'.buffer, LastRow, <<87, 111, 114, 108, 100, 33>>)
         /\ printer'.col_pos = 6]_vars

\* "Hello\nWorld!" was the first call, on a buffer whose first row is blank.
C7_Witness ==
    /\ calls = 1
    /\ lastOp = [op |-> "write_string", arg |-> HelloWorld]
    /\ Blank(printer.buffer[0][0])
    /\ printer.buffer[LastRow - 1][4].ascii_code = 111
    /\ printer.buffer[LastRow][5].ascii_code = 33

\* The step is one execution of newline() and nothing else: write_byte of a
\* newline byte.
NewlineStep == lastOp'.op = "write_byte" /\ lastOp'.arg[1] = NEWLINE

\* C14: one execution of newline() copies every cell of rows 1..24, character
\* and attribute, to the same column of the row above, so that what row 0 held
\* is gone; leaves every cell of row 24 a space (0x20) in the current color;
\* leaves col_pos = 0; and does not change the current color.
C14_NewlineShiftsRowsBlanksLast ==
    [][NewlineStep =>
         /\ \A r \in 1..(VGA_BUFFER_HEIGTH - 1) : \A c \in Cols :
               printer'.buffer[r - 1][c] = printer.buffer[r][c]
         /\ \A c \in Cols :
               printer'.buffer[LastRow][c]
                 = [ascii_code |-> SPACE,
                    color_code |-> printer.current_color_code]
         /\ printer'.col_pos = 0
         /\ printer'.current_color_code = printer.current_color_code]_vars

\* newline() ran on a screen that had text on its last two rows and leftover
\* cells in another color above: the text moved up and the last row is blank
\* in the current color.
C14_Witness ==
    /\ calls = 2
    /\ lastOp = [op |-> "write_byte", arg |-> <<NEWLINE>>]
    /\ printer.scrolls = 2
    /\ printer.col_pos = 0
    /\ printer.buffer[0][0].color_code # printer.current_color_code
    /\ RowShows(printer.buffer, LastRow - 2, Ramp(VGA_BUFFER_WIDTH))
    /\ printer.buffer[LastRow - 1][0].ascii_code
         = Ramp(VGA_BUFFER_WIDTH + 1)[VGA_BUFFER_WIDTH + 1]
    /\ \A c \in Cols : printer.buffer[LastRow][c].ascii_code = SPACE

\* C16: the largest row index and the largest column index the Printer has
\* used on the buffer, in write_byte, clear_row and newline, are below 25 and
\* below 80, and every cell write_byte wrote in the last call is on row 24 at
\* a column in 0..79, never at column 80.
C16_IndicesInBounds ==
    /\ printer.maxRow < VGA_BUFFER_HEIGTH
    /\ printer.maxCol < VGA_BUFFER_WIDTH
    /\ \A j \in 1..Len(printer.wr) :
         /\ printer.wr[j].row = LastRow
         /\ printer.wr[j].col \in Cols

\* A byte was written when col_pos was 80: the Printer scrolled and wrote it at
\* column 0, and the largest indices used are 24 and 79.
C16_Witness ==
    /\ calls = 2
    /\ lastOp = [op |-> "write_byte", arg |-> <<UNPRINTABLE_CHAR>>]
    /\ printer.scrolls = 1
    /\ printer.wr = <<[row |-> LastRow, col |-> 0,
                       ascii_code |-> UNPRINTABLE_CHAR]>>
    /\ printer.maxRow = LastRow
    /\ printer.maxCol = VGA_BUFFER_WIDTH - 1

\* C18: write_byte of a byte b other than newline, with col_pos < 80, leaves the
\* buffer as it was but for the cell (24, col_pos), which holds b in the
\* current color; raises col_pos by one; runs no newline() and leaves the
\* current color as it was. And any call in which newline() did not run leaves
\* rows 0..23 as they were.
C18_CharWriteTouchesOneCell ==
    [][/\ (CharWriteStep /\ printer.col_pos < VGA_BUFFER_WIDTH) =>
            /\ printer'.buffer =
                 [printer.buffer EXCEPT ![LastRow][printer.col_pos] =
                    [ascii_code |-> lastOp'.arg[1],
                     color_code |-> printer.current_color_code]]
            /\ printer'.col_pos = printer.col_pos + 1
            /\ printer'.scrolls = printer.scrolls
            /\ printer'.current_color_code = printer.current_color_code
       /\ printer'.scrolls = printer.scrolls =>
            \A r \in 0..(LastRow - 1) :
              printer'.buffer[r] = printer.buffer[r]]_vars

\* A byte was written at column 5 of the last row of a screen with leftover
\* cells: the rows above are the leftover ones.
C18_Witness ==
    /\ calls = 2
    /\ lastOp = [op |-> "write_byte", arg |-> <<65>>]
    /\ printer.scrolls = 0
    /\ printer.col_pos = 6
    /\ printer.buffer[LastRow][5].ascii_code = 65
    /\ \A r \in 0..(LastRow - 1) : printer.buffer[r] = LeftoverBuffer[r]

\* ceil(n / 80)
LinesOf(n) == (n + VGA_BUFFER_WIDTH - 1) \div VGA_BUFFER_WIDTH

\* The step is a call of write_string, made at col_pos = 0, with a string of
\* one byte or more, none of them a newline.
LineAtColumnZeroStep ==
    /\ lastOp'.op = "write_string"
    /\ printer.col_pos = 0
    /\ Len(lastOp'.arg) >= 1
    /\ \A j \in 1..Len(lastOp'.arg) : lastOp'.arg[j] # NEWLINE

\* C19: write_string of N >= 1 bytes other than newline, printable or not,
\* called at col_pos = 0, runs newline() exactly ceil(N / 80) - 1 times and
\* leaves col_pos = N - 80 * (ceil(N / 80) - 1), a value in 1..80: a string of
\* exactly 80 bytes runs no newline() and leaves col_pos = 80.
C19_DeferredWrapCount ==
    [][LineAtColumnZeroStep =>
         LET N == Len(lastOp'.arg)
         IN  /\ printer'.scrolls = printer.scrolls + LinesOf(N) - 1
             /\ printer'.col_pos = N - VGA_BUFFER_WIDTH * (LinesOf(N) - 1)
             /\ printer'.col_pos \in 1..VGA_BUFFER_WIDTH
             /\ Len(printer'.wr) = N]_vars

\* After a newline, 160 bytes with unprintable ones among them were written:
\* one more scroll, and col_pos rests at 80.
C19_Witness ==
    /\ calls = 2
    /\ lastOp = [op |-> "write_string", arg |-> Garble(2 * VGA_BUFFER_WIDTH)]
    /\ printer.scrolls = 2
    /\ printer.col_pos = VGA_BUFFER_WIDTH
    /\ Len(printer.wr) = 2 * VGA_BUFFER_WIDTH

\* ----------------------------------------------------- claims: harness

\* 1, 2, ..., n
Iota(n) == [i \in 1..n |-> i]

Range(s) == {s[j] : j \in 1..Len(s)}

\* The tests of the serial lines of one kind, in the order written.
RunningTests ==
    LET sel == SelectSeq(serial, LAMBDA m : m.kind = "running")
    IN  [j \in 1..Len(sel) |-> sel[j].test]

OkTests ==
    LET sel == SelectSeq(serial, LAMBDA m : m.kind = "ok")
    IN  [j \in 1..Len(sel) |-> sel[j].test]

Count(kind) == Cardinality({j \in 1..Len(serial) : serial[j].kind = kind})

\* "running" i, "ok" i for the tests 1..n, in order.
RECURSIVE Pairs(_)
Pairs(n) ==
    IF n = 0 THEN <<>>
    ELSE Pairs(n - 1) \o <<[kind |-> "running", test |-> n],
                           [kind |-> "ok", test |-> n]>>

Header == [kind |-> "header", test |-> Len(tests)]

\* The whole serial output of a run in which test k panics.
FailedRunOutput(k) ==
    <<Header>> \o Pairs(k - 1)
      \o <<[kind |-> "running", test |-> k], [kind |-> "banner", test |-> 0],
           [kind |-> "error", test |-> k]>>

\* The whole serial output of a run in which all n tests return.
PassedRunOutput(n) == <<Header>> \o Pairs(n)

\* The first panic of the run is the panic of test k's callable.
FirstFaultIsTest(k) ==
    /\ panics # <<>>
    /\ panics[1].cause = "test"
    /\ panics[1].test = k

\* The program is not stuck: it can take a step. A write_fmt on the Printer
\* always can; the other steps are asked of the next-state relation.
CanStep == PrinterWriting \/ ENABLED (~PrinterWriting /\ HarnessNext)

AllReturn == \A i \in 1..Len(tests) : tests[i] = "return"

C10_EveryFaultReportedThenExit ==
    (TestBuild /\ panics # <<>>) =>
      \/ CanStep
      \/ /\ exitPort = <<Failed>>
         /\ Count("banner") >= 1
         /\ Count("error") >= 1

\* The last line written to the serial port.
LastLine == serial[Len(serial)]

\* C17: the tests whose name was printed, whose callable was invoked and whose
\* "ok" was printed are each 1, 2, ... in registration order, with
\* #ok <= #invoked <= #names <= #ok + 1: test i is invoked only after its name
\* is printed, its "ok" is printed only after it was invoked, and the name of
\* test i + 1 is printed only after the "ok" of test i; a callable is invoked
\* right after its name was printed; an "ok" is printed only for the test
\* invoked last, and only if it returns; and Success is written to the
\* debug-exit port only when every test has its "ok", the last line printed
\* being the "ok" of the last test.
C17_TestsInOrderOkOnlyAfterReturn ==
    /\ [](/\ RunningTests = Iota(Len(RunningTests))
          /\ invoked = Iota(Len(invoked))
          /\ OkTests = Iota(Len(OkTests))
          /\ Len(OkTests) <= Len(invoked)
          /\ Len(invoked) <= Len(RunningTests)
          /\ Len(RunningTests) <= Len(OkTests) + 1
          /\ \A j \in 1..Len(OkTests) : tests[OkTests[j]] = "return"
          /\ Success \in Range(exitPort) => OkTests = Iota(Len(tests)))
    /\ [][/\ invoked' # invoked =>
                /\ invoked' = Append(invoked, idx)
                /\ LastLine = [kind |-> "running", test |-> idx]
          /\ Len(OkTests') > Len(OkTests) =>
                /\ pc = "ok"
                /\ invoked[Len(invoked)] = LastLine'.test
                /\ LastLine'.kind = "ok"
          /\ (exitPort' # exitPort /\ exitPort'[Len(exitPort')] = Success) =>
                \/ Len(tests) = 0 /\ LastLine.kind = "header"
                \/ LastLine = [kind |-> "ok", test |-> Len(tests)]]_vars

\* Two tests returned and the third, which will panic, was invoked: its name
\* was printed, its "ok" was not.
C17_Witness ==
    /\ tests = <<"return", "return", "panic">>
    /\ invoked = <<1, 2, 3>>
    /\ RunningTests = <<1, 2, 3>>
    /\ OkTests = <<1, 2>>
    /\ pc = "exit_failed"

\* ------------------------------------------------ claims: devices and locks

\* The step is the dereference of SERIAL (of PRINTER) that starts a _print.
SerialAccess == pc \in PrintPcs /\ phase = "deref" /\ phase' = "lock"

PrinterAccess == pc \in VgaPcs /\ phase = "deref" /\ phase' = "lock"

\* C11: the initializer of SERIAL and the one of PRINTER each run at most once;
\* each runs in the first dereference of its handle, whichever statement makes
\* it, a statement of the normal path or one of a panic handler, and in no
\* other step; nothing is written to the serial port, and the SERIAL mutex is
\* not taken, before the SERIAL initializer (with init()) has run, and nothing
\* is written to the screen before the PRINTER initializer has run; a later
\* dereference leaves the Printer as it is.
C11_LazyInitOnceOnFirstAccess ==
    /\ [](/\ serialInits \in {0, 1}
          /\ printerInits \in {0, 1}
          /\ (serial # <<>> \/ serialLock) => serialInits = 1
          /\ (calls > 0 \/ printerLock) => printerInits = 1)
    /\ [][/\ SerialAccess => serialInits' = 1
          /\ serialInits' # serialInits => (SerialAccess /\ serialInits = 0)
          /\ PrinterAccess => printerInits' = 1
          /\ printerInits' # printerInits => (PrinterAccess /\ printerInits = 0)
          /\ (PrinterAccess /\ printerInits = 1) => printer' = printer]_vars

\* In the kernel build the first print to the serial port failed: the panic
\* handler made the first access to PRINTER and has printed its banner, and it
\* is about to print again.
C11_Witness ==
    /\ build = "main"
    /\ panics # <<>>
    /\ pc = "panic_info"
    /\ phase = "lock"
    /\ serialInits = 1
    /\ printerInits = 1
    /\ calls = 1

\* The guards alive on a device, by their place in `guards`.
GuardsOn(device) == {j \in 1..Len(guards) : guards[j].device = device}

\* The statement whose _print holds the only guard on the device.
Holder(device) == guards[CHOOSE j \in GuardsOn(device) : TRUE].at

\* C12: each device has at most one guard alive, and its mutex is held exactly
\* while one is; whatever reaches the serial port or the screen is written by
\* the statement whose _print holds the device's only guard, which it took
\* before the write and keeps until the write is done; and a _print that waits
\* for a free mutex takes it whether or not the other device's mutex is held.
C12_OneHolderPerDeviceLocksIndependent ==
    /\ [](/\ Cardinality(GuardsOn("SERIAL")) <= 1
          /\ Cardinality(GuardsOn("PRINTER")) <= 1
          /\ serialLock <=> GuardsOn("SERIAL") # {}
          /\ printerLock <=> GuardsOn("PRINTER") # {}
          /\ (pc \in PrintPcs /\ phase = "write") =>
                (serialLock /\ Holder("SERIAL") = pc)
          /\ (pc \in VgaPcs /\ phase = "write") =>
                (printerLock /\ Holder("PRINTER") = pc)
          /\ (pc \in PrintPcs /\ phase = "lock" /\ ~serialLock) =>
                ENABLED SerialLock
          /\ (pc \in VgaPcs /\ phase = "lock" /\ ~printerLock) =>
                ENABLED PrinterLock)
    /\ [][/\ serial' # serial =>
                /\ pc \in PrintPcs /\ phase = "write"
                /\ Len(serial') = Len(serial) + 1
                /\ GuardsOn("SERIAL")' = {}
          /\ calls' # calls =>
                /\ pc \in VgaPcs /\ phase = "write"
                /\ GuardsOn("PRINTER")' = {}]_vars

\* The panic handler of the kernel build holds the PRINTER mutex and writes,
\* while the guard of the serial print that failed is still alive.
C12_Witness ==
    /\ build = "main"
    /\ serialLock
    /\ printerLock
    /\ pc = "panic_banner"
    /\ phase = "write"
    /\ guards = <<[device |-> "SERIAL", at |-> "start"],
                  [device |-> "PRINTER", at |-> "panic_banner"]>>

\* No test callable of the registry runs forever.
NoHang == \A i \in 1..Len(tests) : tests[i] # "hang"

\* C13: a test run whose callables all return or panic does not stop before an
\* exit code is written to the debug-exit port: until then it always has a
\* step to take (and it has no endless sequence of steps to take).
C13_SuiteReachesExit ==
    (TestBuild /\ NoHang) => (exitPort # <<>> \/ CanStep)

\* The _print in flight is at lock() on a mutex that is held. The program has
\* one context of execution, so the guard is one of its own.
WaitsOnOwnLock ==
    /\ phase = "lock"
    /\ \/ pc \in PrintPcs /\ serialLock
       \/ pc \in VgaPcs /\ printerLock

\* C15: no statement, a panic handler's included, ever calls lock() on a device
\* mutex while a guard of that mutex is alive.
C15_NoLockReacquired == ~WaitsOnOwnLock

\* A test callable has panicked.
TestFaulted == \E j \in 1..Len(panics) : panics[j].cause = "test"

\* C20: at most one code is ever written to the debug-exit port, Success or
\* Failed; Success is there only if no test callable panicked and Failed only
\* if one did; and once a code is written, whether the write ended the machine
\* or exit_qemu returned to its caller, no test callable is invoked and no
\* code is written any more.
C20_AtMostOneExitCode ==
    /\ [](/\ exitPort \in {<<>>, <<Success>>, <<Failed>>}
          /\ exitPort = <<Success>> => ~TestFaulted
          /\ exitPort = <<Failed>> => TestFaulted)
    /\ [][exitPort # <<>> =>
            (invoked' = invoked /\ exitPort' = exitPort)]_vars

\* In the test binary of main.rs exit_qemu(Success) returned: _start went on,
\* printed to the serial port and the screen, and loops; Success is the only
\* code written.
C20_Witness ==
    /\ build = "main_test"
    /\ Len(tests) = 2
    /\ exitPort = <<Success>>
    /\ pc = "loop"
    /\ calls = 1
    /\ Count("start") = 1

====
